---- MODULE Spec2Model ----
(***************************************************************************)
(* Verification model of the recipe retrieval backend (src/backend).       *)
(*                                                                         *)
(* Part 1: the Indexing Job, RAGSystem.index_recipes (src/backend/rag.py), *)
(* and the start-reindex endpoint api_refresh_embeddings                   *)
(* (src/backend/main.py).  The code runs on one asyncio event loop: a      *)
(* coroutine runs without interruption from one await to the next, so      *)
(* every action below is the code between two consecutive awaits.          *)
(*                                                                         *)
(* The Record Store is rebuilt from scratch by import_recipes (the         *)
(* database file is removed, ids are AUTOINCREMENT from 1), so the recipe  *)
(* list get_all_recipes returns is the list of ids 1..n for the n recipes  *)
(* the store holds at that moment; n is an input of each request.          *)
(*                                                                         *)
(* Part 2: the two pure functions of the fusion ranker, the scoring of     *)
(* RAGSystem.search (RankSpec) and the merge of api_search_natural         *)
(* (MergeSpec), each applied to inputs drawn by the initial state.         *)
(*                                                                         *)
(* Part 3: one search request, api_search_natural or api_search_recipes    *)
(* (src/backend/main.py), next to imports and indexing runs (SearchSpec).  *)
(*                                                                         *)
(* Part 4: the Filter Compiler, search_recipes (src/backend/database.py),  *)
(* called twice with the same filters over an unchanged store (FilterSpec).*)
(*                                                                         *)
(* Part 5: the import loop of import_recipes (src/backend/import_data.py)  *)
(* over a list of entries (ImportSpec).                                    *)
(*                                                                         *)
(* Part 6: the loop of get_recipes_list (src/scrap_recipes.py) over the    *)
(* listing pages of the site (ScraperSpec).                                *)
(***************************************************************************)
EXTENDS Integers, FiniteSets, Sequences, TLC

\* ------------------------------------------------------------- bounds
\* Largest number of recipes the Record Store holds.
MaxRecipes == 3
\* batch_size of index_recipes.  The source uses 50 (rag.py:92); the model
\* scales it down so that a run over MaxRecipes recipes has several batches.
batch_size == 2
\* Capacity of the semaphore of index_recipes.  The source uses 5
\* (rag.py:65); the model scales it down, keeping it below batch_size so that
\* tasks of one batch have to wait for a slot.
SemLimit == 1

\* The start-reindex requests: each is one HTTP request whose background task
\* calls index_recipes once.  Two requests give every interleaving of a call
\* with a run and every pair of successive runs.
Reqs == {1, 2}

Min(a, b) == IF a < b THEN a ELSE b

VARIABLES
    indexing_status,  \* rag_system.indexing_status
    collection,       \* ids stored in the Chroma collection "recipes"
    pc,               \* per request: position of the handler / background task
    resp,             \* per request: the HTTP response message ("" = none yet)
    recipes,          \* per request: len(all_recipes) passed to index_recipes
    i,                \* per run: loop variable i of the batch loop
    task,             \* per run: state of process_recipe(recipe) for each recipe
    sem,              \* per run: value of the local asyncio.Semaphore
    retval,           \* per run: value returned by index_recipes (-1 = none yet)
    clearOutcome,     \* per run (history): how the clear step at lines 55-63 went
    excAt,            \* per run (history): where an exception reached the outer try
    upserted,         \* per run (history): ids this run passed to a successful upsert
    final,            \* per run (history): indexing_status when the call returned
    endIndex,         \* per run (history): collection when the call returned
    pred,             \* per run (history): the run that finished last before this one started
    lastRun           \* the request whose run finished last (0 = none)

\* Part 2, the fusion ranker: the scoring of RAGSystem.search and the merge of
\* api_search_natural are pure functions of their inputs, checked each on
\* inputs drawn by the initial state.
VARIABLES
    results,          \* what collection.query returned: candidates, nearest first
    ranked,           \* the list of ids RAGSystem.search computes from results
    rankDone,         \* whether ranked has been computed
    keyword_in,       \* merge input: ids of the lexical probe, in returned order
    vector_in,        \* merge input: ids of the semantic probe, in returned order
    merged_out,       \* the merged id list computed from the two inputs
    mergeDone         \* whether merged_out has been computed

fusionVars == <<results, ranked, rankDone, keyword_in, vector_in, merged_out, mergeDone>>

\* Part 3, a search request: api_search_natural and api_search_recipes
\* (src/backend/main.py) next to imports and indexing runs.
VARIABLES
    store,            \* number of recipes in the Record Store (their ids are 1..store)
    spc,              \* position of the search handler: the await it is suspended at
    h,                \* the handler's request fields and local variables
    response,         \* the HTTP response of the search request (status 0 = none yet)
    touched,          \* (history) the services the request has called
    hist              \* (history) how the awaited calls of the request went

searchVars == <<store, spc, h, response, touched, hist>>

\* Part 4, the Filter Compiler: search_recipes (src/backend/database.py) called
\* by api_search_recipes, twice with the same filters over an unchanged store.
VARIABLES
    db,               \* the rows of the recipes table the filters run on, by id
    calls             \* (history) the calls made so far: request, fetched page, response

filterVars == <<db, calls>>

\* Part 5, the import: import_recipes (src/backend/import_data.py), a
\* synchronous script that rebuilds the Record Store from a list of entries.
VARIABLES
    data,             \* the entries of the input file, in file order
    pos,              \* index of the entry the loop handles next (0: no import)
    tables,           \* the tables of the store, each a sequence of its rows
    recipe_count,     \* counter of inserted recipes
    skipped,          \* counter of skipped entries
    ipc               \* position of the script: "idle", "loop", "done"

importVars == <<data, pos, tables, recipe_count, skipped, ipc>>

\* Part 6, the scraper: get_recipes_list (src/scrap_recipes.py), the loop over
\* the listing pages of the site.
VARIABLES
    scrape_all,       \* the mode: TRUE = until no new recipes, FALSE = up to end_page
    end_page,         \* last listing page of the bounded mode
    page_no,          \* the listing page the loop fetches next (page in the source)
    consecutive_empty,\* the loop's counter of pages without a new recipe
    seen_urls,        \* the recipe urls taken so far
    details,          \* (history) per recipe url, how often its details were fetched
    barren,           \* (history) consecutive listing pages, fetched or failed, that
                      \* yielded no new recipe
    lpc               \* position of the scraper: "idle", "loop", "done"

scraperVars == <<scrape_all, end_page, page_no, consecutive_empty, seen_urls, details, barren, lpc>>

restVars == <<filterVars, importVars, scraperVars>>

vars == <<indexing_status, collection, pc, resp, recipes, i, task,
          sem, retval, clearOutcome, excAt, upserted, final, endIndex, pred, lastRun,
          fusionVars, searchVars, restVars>>

\* Status messages.  "Processed" stands for f"Processed {processed}/{total}":
\* the two numbers are the fields processed and total of the same status.
\* "Failed" stands for f"Failed: {e}".
MsgIdle == "Idle"
MsgStarting == "Starting indexing..."
MsgProcessed == "Processed"
MsgCompleted == "Completed"
MsgFailed == "Failed"

RespNone == ""
RespAlready == "Indexing already in progress"
RespStarted == "Indexing started in background"

\* RAGSystem.__init__: the status of a fresh rag_system.  The collection is
\* persistent: a new process finds it empty (first start) or as an earlier
\* process left it (here: the ids of a store of MaxRecipes recipes).
InitStatus ==
    [is_indexing |-> FALSE, processed |-> 0, total |-> 0, message |-> MsgIdle]

NoStatus ==
    [is_indexing |-> FALSE, processed |-> 0, total |-> 0, message |-> ""]

\* Positions of a background task inside a run of index_recipes (past the guard,
\* suspended at an await).
Running == {"gather", "upsert"}
\* Positions of a request that is over.
Ended == {"rejected", "dropped", "completed", "failed"}

\* recipes[j : j + batch_size] of the list of ids 1..n (position p holds id p+1).
Batch(n, j) == {x \in 1..n : x > j /\ x <= j + batch_size}

\* Number of the batch recipe x belongs to (0-based).
BatchOf(x) == (x - 1) \div batch_size

TaskDone == {"ok", "none"}

\* No scoring or merge under way.
RankIdle == results = <<>> /\ ranked = <<>> /\ rankDone = FALSE
MergeIdle ==
    keyword_in = <<>> /\ vector_in = <<>> /\ merged_out = <<>> /\ mergeDone = FALSE

\* The handler's frame before a request: the request fields and the locals of
\* api_search_natural.  paged_recipes holds, for each recipe dict, its id and
\* whether it has the key 'ingredients'; context_recipes holds ids.
NoFrame ==
    [kind |-> "none", page |-> 1, page_size |-> 1,
     vector_ids |-> <<>>, keyword_ids |-> <<>>, all_recipe_ids |-> <<>>,
     paged_recipe_ids |-> <<>>, paged_recipes |-> <<>>,
     context_ids |-> <<>>, context_recipes |-> <<>>, k |-> 0]

NoResponse ==
    [status |-> 0, recipes |-> <<>>, total |-> 0, page |-> 0, page_size |-> 0,
     answer |-> ""]

NoHist ==
    [probe |-> "none", storeAtProbe |-> 0, lexical |-> "none", dbRaised |-> FALSE,
     gen |-> "none"]

\* No search request under way, and a store that holds MaxRecipes recipes.
SearchIdle ==
    /\ store = MaxRecipes
    /\ spc = "idle"
    /\ h = NoFrame
    /\ response = NoResponse
    /\ touched = {}
    /\ hist = NoHist

IndexInit ==
    /\ indexing_status = InitStatus
    /\ collection \in {{}, 1..MaxRecipes}
    /\ pc = [r \in Reqs |-> "idle"]
    /\ resp = [r \in Reqs |-> RespNone]
    /\ recipes = [r \in Reqs |-> 0]
    /\ i = [r \in Reqs |-> 0]
    /\ task = [r \in Reqs |-> [x \in 1..MaxRecipes |-> "new"]]
    /\ sem = [r \in Reqs |-> SemLimit]
    /\ retval = [r \in Reqs |-> -1]
    /\ clearOutcome = [r \in Reqs |-> "none"]
    /\ excAt = [r \in Reqs |-> "none"]
    /\ upserted = [r \in Reqs |-> {}]
    /\ final = [r \in Reqs |-> NoStatus]
    /\ endIndex = [r \in Reqs |-> {}]
    /\ pred = [r \in Reqs |-> 0]
    /\ lastRun = 0

FilterIdle ==
    /\ db = <<>>
    /\ calls = <<>>

\* import_data.py:36-38, the database file is removed: every table is empty.
EmptyTables ==
    [recipes |-> <<>>, ingredients |-> <<>>, tags |-> <<>>, recipe_tags |-> <<>>,
     categories |-> <<>>, recipe_categories |-> <<>>]

ImportIdle ==
    /\ data = <<>>
    /\ pos = 0
    /\ tables = EmptyTables
    /\ recipe_count = 0
    /\ skipped = 0
    /\ ipc = "idle"

\* The recipe urls of the site; "skip" is the one url2skip names.
Urls == {"r1", "r2", "skip"}

ScraperIdle ==
    /\ scrape_all = FALSE
    /\ end_page = 0
    /\ page_no = 1
    /\ consecutive_empty = 0
    /\ seen_urls = {}
    /\ details = [u \in Urls |-> 0]
    /\ barren = 0
    /\ lpc = "idle"

RestIdle == FilterIdle /\ ImportIdle /\ ScraperIdle

Init == IndexInit /\ RankIdle /\ MergeIdle /\ SearchIdle /\ RestIdle


\* ------------------------------------------------- pieces of index_recipes

\* Variant of Guard: no guard at all.
Guard_never(st) == FALSE

\* Variant of Guard: the guard looks at the message instead of the flag.
Guard_message(st) == st.message = MsgStarting

\* rag.py:35, the single-flight guard: true when the call has to return at once.
Guard(st) == st.is_indexing

\* rag.py:39-44, the status a run installs once it is past the guard.
StartStatus(n) ==
    [is_indexing |-> TRUE, processed |-> 0, total |-> n, message |-> MsgStarting]

\* rag.py:55-63, the clear step.  delete_collection and get_or_create_collection
\* are calls into Chroma; either may raise, and the exception is printed and
\* swallowed.  "ok": both returned; "delete_raised": delete_collection raised (the
\* collection keeps its entries); "create_raised": the collection was deleted and
\* get_or_create_collection raised.
ClearOutcomes == {"ok", "delete_raised", "create_raised"}

\* Variant of Cleared: the collection is never cleared (upsert only).
Cleared_never(coll, c) == coll

Cleared(coll, c) == IF c = "delete_raised" THEN coll ELSE {}

\* Variant of CanAcquire: off by one.
CanAcquire_offByOne(v) == v >= 0

\* rag.py:73, async with semaphore: a slot can be taken when the value is positive.
CanAcquire(v) == v > 0

\* Outcomes of `await get_embedding(text)`, rag.py:75-87: a vector, an empty
\* result (falls through to `return None`), or an exception (caught, `return None`).
EmbedOutcomes == {"vector", "empty", "raise"}

\* rag.py:76-88: what process_recipe returns for an outcome ("ok" = the dict).
TaskResult(o) == IF o = "vector" THEN "ok" ELSE "none"

\* rag.py:73, leaving `async with semaphore`: the slot is released on every exit.
Release(v, o) == v + 1

\* Variant of GatherReturns: returns as soon as one task has (FIRST_COMPLETED).
GatherReturns_first(ts, b) == \E x \in b : ts[x] \in TaskDone

\* rag.py:101, asyncio.gather(*tasks) returns once every task of the batch has.
GatherReturns(ts, b) == \A x \in b : ts[x] \in TaskDone

\* rag.py:104-114: the ids of the results that are not None.
BatchIds(ts, b) == {x \in b : ts[x] = "ok"}

\* Variant of Upsert: the batch replaces the collection.
Upsert_replace(coll, ids) == ids

\* rag.py:118-124, collection.upsert: the entries are added, an entry with the
\* same id is overwritten.
Upsert(coll, ids) == coll \cup ids

\* Variant of ProcessedCount: the count is not capped by the total.
ProcessedCount_noMin(j, total) == j + batch_size

\* rag.py:126
ProcessedCount(j, total) == Min(j + batch_size, total)

\* Variant of BatchStatus: only the message is updated.
BatchStatus_messageOnly(st, j) == [st EXCEPT !.message = MsgProcessed]

\* rag.py:127-128
BatchStatus(st, j) ==
    [st EXCEPT !.processed = ProcessedCount(j, st.total), !.message = MsgProcessed]

\* Variant of OnException: the failure is logged but not written to the status.
OnException_silent(st) == st

\* rag.py:134-137, the handler of the outer try.
OnException(st) == [st EXCEPT !.message = MsgFailed]

\* Variant of Finally: the flag is cleared on the normal path only.
Finally_onSuccess(st) ==
    IF st.message = MsgFailed THEN st ELSE [st EXCEPT !.is_indexing = FALSE]

\* rag.py:138-139, the finally clause of the outer try.
Finally(st) == [st EXCEPT !.is_indexing = FALSE]

\* index_recipes returns: status st and collection coll are what it leaves.
Return(r, st, coll, val, exc) ==
    /\ indexing_status' = st
    /\ collection' = coll
    /\ retval' = [retval EXCEPT ![r] = val]
    /\ excAt' = [excAt EXCEPT ![r] = exc]
    /\ pc' = [pc EXCEPT ![r] = IF exc = "none" THEN "completed" ELSE "failed"]
    /\ final' = [final EXCEPT ![r] = st]
    /\ endIndex' = [endIndex EXCEPT ![r] = coll]
    /\ lastRun' = r

\* rag.py:131-139, after the last batch: message "Completed", then
\* `return self.collection.count()`; count() is a call into Chroma and may raise,
\* which the outer handler catches.
Finish(r, st, coll) ==
    /\ \E countRaises \in BOOLEAN :
          LET st2 == [st EXCEPT !.message = MsgCompleted] IN
          IF countRaises
          THEN Return(r, Finally(OnException(st2)), coll, 0, "count")
          ELSE Return(r, Finally(st2), coll, Cardinality(coll), "none")
    /\ UNCHANGED <<i, task>>

\* rag.py:96-101: the loop body starts for the batch at j; the tasks of the batch
\* are created and the run suspends in gather.
StartBatch(r, j, st, coll) ==
    /\ i' = [i EXCEPT ![r] = j]
    /\ task' = [task EXCEPT ![r] =
                  [x \in 1..MaxRecipes |->
                      IF x \in Batch(recipes[r], j) THEN "waiting" ELSE @[x]]]
    /\ pc' = [pc EXCEPT ![r] = "gather"]
    /\ indexing_status' = st
    /\ collection' = coll
    /\ UNCHANGED <<retval, excAt, final, endIndex, lastRun>>

\* rag.py:126-129 and the loop header: the status is updated for the batch at
\* i[r], then the next batch starts or the loop is over.
Advance(r, st, coll) ==
    LET st1 == BatchStatus(st, i[r]) IN
    IF i[r] + batch_size < recipes[r]
    THEN StartBatch(r, i[r] + batch_size, st1, coll)
    ELSE Finish(r, st1, coll)

\* ------------------------------------------------------------- actions

\* main.py:387-395: the handler up to `await get_all_recipes()`.
ApiRefreshCheck(r) ==
    /\ pc[r] = "idle"
    /\ IF indexing_status.is_indexing
       THEN /\ resp' = [resp EXCEPT ![r] = RespAlready]
            /\ pc' = [pc EXCEPT ![r] = "rejected"]
       ELSE /\ pc' = [pc EXCEPT ![r] = "get_all"]
            /\ UNCHANGED resp
    /\ UNCHANGED <<indexing_status, collection, recipes, i, task, sem,
                   retval, clearOutcome, excAt, upserted, final, endIndex, pred, lastRun>>
    /\ UNCHANGED <<fusionVars, searchVars, restVars>>

\* main.py:395-400: get_all_recipes returns the list of the n recipes the store
\* holds now, the task is added and the response is sent; the background task
\* runs after the response.
ApiRefreshRespond(r) ==
    /\ pc[r] = "get_all"
    /\ \E n \in 0..MaxRecipes : recipes' = [recipes EXCEPT ![r] = n]
    /\ resp' = [resp EXCEPT ![r] = RespStarted]
    /\ pc' = [pc EXCEPT ![r] = "task"]
    /\ UNCHANGED <<indexing_status, collection, i, task, sem,
                   retval, clearOutcome, excAt, upserted, final, endIndex, pred, lastRun>>
    /\ UNCHANGED <<fusionVars, searchVars, restVars>>

\* rag.py:34-101: index_recipes from its entry to its first await (or to its
\* return, when the guard holds or the list is empty).
IndexStart(r) ==
    /\ pc[r] = "task"
    /\ IF Guard(indexing_status)
       THEN /\ retval' = [retval EXCEPT ![r] = 0]
            /\ pc' = [pc EXCEPT ![r] = "dropped"]
            /\ UNCHANGED <<indexing_status, collection, i, task, sem, clearOutcome,
                           excAt, final, endIndex, pred, lastRun>>
       ELSE \E c \in ClearOutcomes :
            /\ clearOutcome' = [clearOutcome EXCEPT ![r] = c]
            /\ pred' = [pred EXCEPT ![r] = lastRun]
            /\ sem' = [sem EXCEPT ![r] = SemLimit]
            /\ IF recipes[r] > 0
               THEN StartBatch(r, 0, StartStatus(recipes[r]), Cleared(collection, c))
               ELSE Finish(r, StartStatus(recipes[r]), Cleared(collection, c))
    /\ UNCHANGED <<resp, recipes, upserted>>
    /\ UNCHANGED <<fusionVars, searchVars, restVars>>

\* rag.py:67-75: a task of the current batch enters the semaphore and issues its
\* embedding request.  gather starts the tasks in list order and
\* asyncio.Semaphore wakes its waiters first-in first-out, so the tasks enter in
\* list order.
TaskAcquire(r, x) ==
    /\ pc[r] = "gather"
    /\ task[r][x] = "waiting"
    /\ \A y \in 1..(x - 1) : task[r][y] # "waiting"
    /\ CanAcquire(sem[r])
    /\ sem' = [sem EXCEPT ![r] = @ - 1]
    /\ task' = [task EXCEPT ![r][x] = "inflight"]
    /\ UNCHANGED <<indexing_status, collection, pc, resp, recipes, i,
                   retval, clearOutcome, excAt, upserted, final, endIndex, pred, lastRun>>
    /\ UNCHANGED <<fusionVars, searchVars, restVars>>

\* rag.py:75-88: the embedding request of a task returns or raises; the task
\* leaves the semaphore and ends.
TaskReturn(r, x) ==
    /\ pc[r] = "gather"
    /\ task[r][x] = "inflight"
    /\ \E o \in EmbedOutcomes :
          /\ task' = [task EXCEPT ![r][x] = TaskResult(o)]
          /\ sem' = [sem EXCEPT ![r] = Release(@, o)]
    /\ UNCHANGED <<indexing_status, collection, pc, resp, recipes, i,
                   retval, clearOutcome, excAt, upserted, final, endIndex, pred, lastRun>>
    /\ UNCHANGED <<fusionVars, searchVars, restVars>>

\* rag.py:101-129: gather returns; with ids the run suspends in the upsert,
\* without ids it goes on to the status update without suspending.
GatherDone(r) ==
    /\ pc[r] = "gather"
    /\ GatherReturns(task[r], Batch(recipes[r], i[r]))
    /\ IF BatchIds(task[r], Batch(recipes[r], i[r])) # {}
       THEN /\ pc' = [pc EXCEPT ![r] = "upsert"]
            /\ UNCHANGED <<indexing_status, collection, i, task, retval, excAt, final,
                           endIndex, lastRun>>
       ELSE Advance(r, indexing_status, collection)
    /\ UNCHANGED <<resp, recipes, sem, clearOutcome, upserted, pred>>
    /\ UNCHANGED <<fusionVars, searchVars, restVars>>

\* rag.py:118-139: the upsert returns or raises.
UpsertReturn(r) ==
    /\ pc[r] = "upsert"
    /\ \E raises \in BOOLEAN :
          LET ids == BatchIds(task[r], Batch(recipes[r], i[r])) IN
          IF raises
          THEN /\ Return(r, Finally(OnException(indexing_status)), collection, 0, "upsert")
               /\ UNCHANGED <<i, task, upserted>>
          ELSE /\ upserted' = [upserted EXCEPT ![r] = @ \cup ids]
               /\ Advance(r, indexing_status, Upsert(collection, ids))
    /\ UNCHANGED <<resp, recipes, sem, clearOutcome, pred>>
    /\ UNCHANGED <<fusionVars, searchVars, restVars>>

Next ==
    \/ \E r \in Reqs : ApiRefreshCheck(r)
    \/ \E r \in Reqs : ApiRefreshRespond(r)
    \/ \E r \in Reqs : IndexStart(r)
    \/ \E r \in Reqs : \E x \in 1..MaxRecipes : TaskAcquire(r, x)
    \/ \E r \in Reqs : \E x \in 1..MaxRecipes : TaskReturn(r, x)
    \/ \E r \in Reqs : GatherDone(r)
    \/ \E r \in Reqs : UpsertReturn(r)

Spec == Init /\ [][Next]_vars

\* A step of the background task of request r.
RunStep(r) ==
    \/ IndexStart(r)
    \/ \E x \in 1..MaxRecipes : TaskAcquire(r, x)
    \/ \E x \in 1..MaxRecipes : TaskReturn(r, x)
    \/ GatherDone(r)
    \/ UpsertReturn(r)

\* The event loop runs every task that is ready, and every embedding request and
\* upsert returns or raises.
FairSpec == Spec /\ \A r \in Reqs : WF_vars(RunStep(r))

TypeOK ==
    /\ indexing_status \in [is_indexing : BOOLEAN, processed : 0..MaxRecipes,
                            total : 0..MaxRecipes,
                            message : {MsgIdle, MsgStarting, MsgProcessed, MsgCompleted, MsgFailed}]
    /\ collection \subseteq 1..MaxRecipes
    /\ pc \in [Reqs -> {"idle", "get_all", "task"} \cup Running \cup Ended]
    /\ \A r \in Reqs : sem[r] \in 0..SemLimit


\* ---------------------------------------- the scoring of RAGSystem.search
\* Distances are in hundredths: 60 stands for the cosine distance 0.60.

\* rag.py:209: the acceptance threshold 0.60.
Threshold == 60
\* rag.py:199: the boost 0.20 of a name that contains the whole query.
FullBoost == 20
\* rag.py:205: the boost 0.05 for each query word longer than three characters
\* that the name contains.
TokenBoost == 5

\* Raw distances collection.query reports: below the threshold, above it by
\* less than FullBoost, and above it by more.
Dists == {45, 70, 85}
\* rag.py:203: values of `matches`, the number of query words longer than
\* three characters found in the name.
MatchCounts == {0, 1, 5}

\* One candidate of the query result (rag.py:185-192): the id, the distance,
\* and what the name in its metadata gives for the query: whether it contains
\* the whole query (rag.py:198) and how many long query words it contains
\* (counted at rag.py:203 only when it does not contain the whole query).
Candidates(S) ==
    {c \in [id : S, dist : Dists, full : BOOLEAN, matches : MatchCounts] :
        c.full => c.matches = 0}

\* collection.query returns each stored id at most once, nearest first.
RECURSIVE NearestFirst(_)
NearestFirst(cs) ==
    IF cs = {} THEN <<>>
    ELSE LET c == CHOOSE x \in cs :
                      \A y \in cs : x.dist < y.dist \/ (x.dist = y.dist /\ x.id <= y.id)
         IN  <<c>> \o NearestFirst(cs \ {c})

\* The query results over an index that holds the ids in S (n_results may cut
\* the list short, so any subset of S can come back).
QueryResults(S) ==
    UNION { { NearestFirst({[id |-> x, dist |-> f[x].dist, full |-> f[x].full,
                             matches |-> f[x].matches] : x \in T})
                : f \in [T -> Candidates({0})] }
            : T \in SUBSET S }

\* rag.py:193-206: final_dist of a candidate.
FinalDist(c) ==
    IF c.full THEN c.dist - FullBoost
    ELSE IF c.matches > 0 THEN c.dist - TokenBoost * c.matches
    ELSE c.dist

\* Variant of Accepted: the threshold is applied to the raw distance first and
\* again after boosting.
Accepted_rawFirst(c) == c.dist <= Threshold /\ FinalDist(c) < Threshold

\* rag.py:209: the candidate is kept.
Accepted(c) == FinalDist(c) < Threshold

\* rag.py:213: list.sort(key=final_dist) is stable: equal keys keep their order.
RECURSIVE SortByFinalDist(_)
SortByFinalDist(cs) ==
    IF cs = <<>> THEN <<>>
    ELSE LET rest == SortByFinalDist(Tail(cs))
             c == Head(cs)
             k == Cardinality({j \in 1..Len(rest) : FinalDist(rest[j]) < FinalDist(c)})
         IN  SubSeq(rest, 1, k) \o <<c>> \o SubSeq(rest, k + 1, Len(rest))

\* rag.py:193-215: the list search returns for a query result.
Scored(res) ==
    LET sr == SortByFinalDist(SelectSeq(res, Accepted))
    IN  [k \in 1..Len(sr) |-> sr[k].id]

\* The scoring applied to a query result drawn by the initial state.
RankInit ==
    /\ IndexInit /\ collection = 1..MaxRecipes
    /\ results \in QueryResults(1..MaxRecipes)
    /\ ranked = <<>> /\ rankDone = FALSE
    /\ MergeIdle /\ SearchIdle /\ RestIdle

Rank ==
    /\ ~rankDone
    /\ ranked' = Scored(results)
    /\ rankDone' = TRUE
    /\ UNCHANGED <<indexing_status, collection, pc, resp, recipes, i, task, sem,
                   retval, clearOutcome, excAt, upserted, final, endIndex, pred, lastRun,
                   results, keyword_in, vector_in, merged_out, mergeDone, searchVars, restVars>>

RankNext == Rank

RankSpec == RankInit /\ [][RankNext]_vars

\* ------------------------------------- the merge of api_search_natural
Range(s) == {s[k] : k \in 1..Len(s)}

\* The lists without repetition over the ids in S: a probe returns an id once.
IdLists(S) ==
    UNION {{s \in [1..n -> S] : \A a, b \in 1..n : a # b => s[a] # s[b]}
              : n \in 0..Cardinality(S)}

\* Variant of DictInsert: the key is appended even when it is present.
DictInsert_always(keys, k) == Append(keys, k)

\* main.py:133-141: merged_map[k] = ... on a dict whose keys, in insertion
\* order, are `keys`: a new key goes last, a present key keeps its place.
DictInsert(keys, k) == IF k \in Range(keys) THEN keys ELSE Append(keys, k)

RECURSIVE InsertAll(_, _)
InsertAll(keys, s) ==
    IF s = <<>> THEN keys ELSE InsertAll(DictInsert(keys, Head(s)), Tail(s))

\* main.py:131-142: all_recipe_ids, from the lexical ids and the vector ids.
MergeIds(kw, vec) == InsertAll(InsertAll(<<>>, kw), vec)

MergeInit ==
    /\ IndexInit /\ collection = 1..MaxRecipes
    /\ RankIdle
    /\ keyword_in \in IdLists(1..MaxRecipes)
    /\ vector_in \in IdLists(1..MaxRecipes)
    /\ merged_out = <<>> /\ mergeDone = FALSE
    /\ SearchIdle /\ RestIdle

Merge ==
    /\ ~mergeDone
    /\ merged_out' = MergeIds(keyword_in, vector_in)
    /\ mergeDone' = TRUE
    /\ UNCHANGED <<indexing_status, collection, pc, resp, recipes, i, task, sem,
                   retval, clearOutcome, excAt, upserted, final, endIndex, pred, lastRun,
                   results, ranked, rankDone, keyword_in, vector_in, searchVars, restVars>>

MergeNext == Merge

MergeSpec == MergeInit /\ [][MergeNext]_vars

\* ------------------------------------------------ the search request
\* Number of merged ids used as context of the answer.  The source uses 5
\* (main.py:178); the model scales it down below MaxRecipes so that a merged
\* list can be longer than the context.
ContextSize == 2
\* The page numbers and page sizes a client sends: page is an int, also 0.
\* With at most MaxRecipes ids in a merged list these give a first page, a
\* later page, a page cut short by the end of the list and a page past it.
Pages == {0, 1, 2}
PageSizes == {1, 2}

AnswerNoMatch == "I couldn't find any recipes matching your description."
AnswerFallback == "I found some recipes but couldn't generate an answer."
\* Stands for the text chat_completion returned.
AnswerGenerated == "generated"

indexVars == <<indexing_status, pc, resp, recipes, i, task, sem, retval,
               clearOutcome, excAt, upserted, final, endIndex, pred, lastRun>>

\* main.py:73, page: int = Query(1, ge=1): FastAPI rejects the request with
\* status 422 before the handler runs when the test fails.
PageValid(page) == page >= 1

\* main.py:103-106, NaturalSearchRequest: page is an int with no constraint.
NaturalPageValid(page) == TRUE

\* Python's s[a:b] on a list: a negative index counts from the end, and an
\* index out of range is clipped.
PyIndex(x, n) == IF x < 0 THEN (IF x + n < 0 THEN 0 ELSE x + n) ELSE Min(x, n)
PySlice(s, a, b) ==
    LET lo == PyIndex(a, Len(s))
        hi == PyIndex(b, Len(s))
    IN  IF lo < hi THEN SubSeq(s, lo + 1, hi) ELSE <<>>

\* Variant of SearchReturn: no try/except, the exception leaves search.
SearchReturn_noCatch(o, res) ==
    IF o = "ok" THEN [raised |-> FALSE, ids |-> Scored(res)]
    ELSE [raised |-> o # "embed_empty", ids |-> <<>>]

\* rag.py:160-219: how RAGSystem.search returns.  o is "ok" (the query
\* returned res), "embed_empty" (get_embedding gave no vector, line 165-167),
\* "embed_raise" or "query_raise" (caught at line 217-219).
SearchReturn(o, res) ==
    IF o = "ok" THEN [raised |-> FALSE, ids |-> Scored(res)]
    ELSE [raised |-> FALSE, ids |-> <<>>]

\* The query results a search request draws from, over an index that holds
\* the ids in S: the ids of v are near the query, the k-th of them at distance
\* 0.40 + k/100, the other ids of S are far from it, and no name contains a
\* word of the query.
ProbeResults(S) ==
    { NearestFirst({[id |-> v[k], dist |-> 40 + k, full |-> FALSE, matches |-> 0]
                       : k \in 1..Len(v)}
                   \cup {[id |-> x, dist |-> 90, full |-> FALSE, matches |-> 0]
                            : x \in S \ Range(v)})
        : v \in IdLists(S) }

\* database.py:218-227: the rows come ORDER BY r.name.  Names are not part of
\* the model; the recipe with the larger id has the earlier name.
RECURSIVE ByName(_)
ByName(S) ==
    IF S = {} THEN <<>>
    ELSE LET m == CHOOSE x \in S : \A y \in S : y <= x
         IN  <<m>> \o ByName(S \ {m})

\* database.py:134-227: the ids search_recipes(q) can return, over a store of
\* n recipes: those the query matches, whichever they are.
LexicalRows(n) == {ByName(T) : T \in SUBSET (1..n)}

\* database.py:216-227, LIMIT page_size OFFSET (page - 1) * page_size.
SqlPage(rows, page, page_size) ==
    LET off == (page - 1) * page_size
    IN  IF off >= Len(rows) THEN <<>>
        ELSE SubSeq(rows, off + 1, Min(off + page_size, Len(rows)))

\* Variant of GetRecipeById: a failure of the query is taken for "no row".
GetRecipeById_swallow(o, id, n) == IF o = "ok" /\ id \in 1..n THEN "row" ELSE "none"

\* database.py:268-323, get_recipe_by_id on a store of n recipes: the query
\* raises, or the recipe is returned, or None when there is no such row.
GetRecipeById(o, id, n) ==
    IF o = "raise" THEN "raise" ELSE IF id \in 1..n THEN "row" ELSE "none"

\* main.py:146-150: paged_recipe_ids.
PageIds(all, page, page_size) ==
    PySlice(all, (page - 1) * page_size, (page - 1) * page_size + page_size)

\* Variant of NoMatches: the empty case is not told apart.
NoMatches_never(all) == FALSE

\* main.py:169, `if not all_recipe_ids`.
NoMatches(all) == all = <<>>

\* Variant of ContextIds: the whole merged list.
ContextIds_all(all) == all

\* main.py:178, all_recipe_ids[:5].
ContextIds(all) == SubSeq(all, 1, Min(ContextSize, Len(all)))

\* main.py:170-173.
NoMatchResponse(f) ==
    [status |-> 200, recipes |-> <<>>, total |-> 0, page |-> f.page,
     page_size |-> f.page_size, answer |-> AnswerNoMatch]

\* Variant of FinalResponse: a failed generation empties the results.
FinalResponse_emptyOnFail(o, f) ==
    IF o = "raise"
    THEN [status |-> 200, recipes |-> <<>>, total |-> 0, page |-> f.page,
          page_size |-> f.page_size, answer |-> AnswerFallback]
    ELSE [status |-> 200,
          recipes |-> [j \in 1..Len(f.paged_recipes) |-> f.paged_recipes[j].id],
          total |-> Len(f.all_recipe_ids), page |-> f.page,
          page_size |-> f.page_size, answer |-> AnswerGenerated]

\* main.py:241-256: the response after chat_completion returned or raised.
FinalResponse(o, f) ==
    [status |-> 200,
     recipes |-> [j \in 1..Len(f.paged_recipes) |-> f.paged_recipes[j].id],
     total |-> Len(f.all_recipe_ids), page |-> f.page, page_size |-> f.page_size,
     answer |-> IF o = "raise" THEN AnswerFallback ELSE AnswerGenerated]

\* An exception that leaves the handler (status 500) or a request FastAPI
\* rejects (status 422): no body of results.
ErrorResponse(code) ==
    [status |-> code, recipes |-> <<>>, total |-> 0, page |-> 0, page_size |-> 0,
     answer |-> ""]

Suspended(p, f) == [spc |-> p, h |-> f, response |-> NoResponse]
Raised(f) == [spc |-> "error", h |-> f, response |-> ErrorResponse(500)]

\* main.py:188-203, the loop over context_ids from index f.k to its next await:
\* a recipe of the page that has the key 'ingredients' is reused, any other is
\* fetched.  After the loop the handler awaits chat_completion (line 242).
RECURSIVE ContextLoop(_)
ContextLoop(f) ==
    IF f.k > Len(f.context_ids) THEN Suspended("generate", f)
    ELSE IF \E j \in 1..Len(f.paged_recipes) :
                 /\ f.paged_recipes[j].id = f.context_ids[f.k]
                 /\ f.paged_recipes[j].ingredients
         THEN ContextLoop([f EXCEPT !.context_recipes = Append(@, f.context_ids[f.k]),
                                    !.k = @ + 1])
         ELSE Suspended("context", f)

\* main.py:169-179: after the page is hydrated.
AfterHydration(f) ==
    IF NoMatches(f.all_recipe_ids)
    THEN [spc |-> "done", h |-> f, response |-> NoMatchResponse(f)]
    ELSE ContextLoop([f EXCEPT !.context_ids = ContextIds(f.all_recipe_ids),
                               !.context_recipes = <<>>, !.k = 1])

\* main.py:161-167, the loop over paged_recipe_ids from index f.k to its next
\* await: a recipe of the lexical probe is taken from keyword_lookup (it has no
\* key 'ingredients', database.py:229-248), any other is fetched.
RECURSIVE HydrateLoop(_)
HydrateLoop(f) ==
    IF f.k > Len(f.paged_recipe_ids) THEN AfterHydration(f)
    ELSE IF f.paged_recipe_ids[f.k] \in Range(f.keyword_ids)
         THEN HydrateLoop([f EXCEPT
                  !.paged_recipes = Append(@, [id |-> f.paged_recipe_ids[f.k],
                                               ingredients |-> FALSE]),
                  !.k = @ + 1])
         ELSE Suspended("hydrate", f)

\* main.py:126-161: after search_recipes returned the rows kw.
AfterLexical(f, kw) ==
    LET all == MergeIds(kw, f.vector_ids)
    IN  HydrateLoop([f EXCEPT !.keyword_ids = kw,
                              !.all_recipe_ids = all,
                              !.paged_recipe_ids = PageIds(all, f.page, f.page_size),
                              !.paged_recipes = <<>>,
                              !.k = 1])

\* main.py:120-125: after rag_system.search returned sr.
AfterSearch(f, sr) ==
    IF sr.raised THEN Raised(f)
    ELSE Suspended("lexical", [f EXCEPT !.vector_ids = sr.ids])

\* The service an awaited call goes to.
Touch(p) ==
    CASE p = "embed" -> {"embedder"}
      [] p = "query" -> {"index"}
      [] p \in {"lexical", "search", "hydrate", "context"} -> {"store"}
      [] p = "generate" -> {"llm"}
      [] OTHER -> {}

\* The handler runs to its next await, or to its end.
Goto(cfg) ==
    /\ spc' = cfg.spc
    /\ h' = cfg.h
    /\ response' = cfg.response
    /\ touched' = touched \cup Touch(cfg.spc)

Terminal == {"done", "error", "rejected"}

\* main.py:103-120 and rag.py:158-164: POST /api/recipes/search/natural, from
\* the validation of the body to `await get_embedding(query)`.
NaturalRequest(page, page_size) ==
    /\ spc = "idle"
    /\ LET f == [NoFrame EXCEPT !.kind = "natural", !.page = page,
                                !.page_size = page_size]
       IN  IF NaturalPageValid(page)
           THEN Goto(Suspended("embed", f))
           ELSE Goto([spc |-> "rejected", h |-> f, response |-> ErrorResponse(422)])
    /\ UNCHANGED <<store, hist, collection, indexVars, fusionVars, restVars>>

\* rag.py:164-175: get_embedding returned or raised.
EmbedReturn(o) ==
    /\ spc = "embed"
    /\ IF o = "vector"
       THEN /\ Goto(Suspended("query", h))
            /\ UNCHANGED hist
       ELSE LET e == IF o = "empty" THEN "embed_empty" ELSE "embed_raise"
            IN  /\ Goto(AfterSearch(h, SearchReturn(e, <<>>)))
                /\ hist' = [hist EXCEPT !.probe = e, !.storeAtProbe = store]
    /\ UNCHANGED <<store, collection, indexVars, fusionVars, restVars>>

\* rag.py:170-219 and main.py:120-125: collection.query returned or raised.
QueryReturn(o) ==
    /\ spc = "query"
    /\ \E res \in IF o = "ok" THEN ProbeResults(collection) ELSE {<<>>} :
           Goto(AfterSearch(h, SearchReturn(o, res)))
    /\ hist' = [hist EXCEPT !.probe = o, !.storeAtProbe = store]
    /\ UNCHANGED <<store, collection, indexVars, fusionVars, restVars>>

\* main.py:125-167: search_recipes(q, page_size=200) returned or raised.
LexicalReturn(o) ==
    /\ spc = "lexical"
    /\ IF o = "raise"
       THEN Goto(Raised(h))
       ELSE \E kw \in LexicalRows(store) : Goto(AfterLexical(h, kw))
    /\ hist' = [hist EXCEPT !.lexical = o, !.dbRaised = @ \/ o = "raise"]
    /\ UNCHANGED <<store, collection, indexVars, fusionVars, restVars>>

\* main.py:165-167: get_recipe_by_id returned or raised in the page loop.
HydrateReturn(o) ==
    /\ spc = "hydrate"
    /\ LET r_id == h.paged_recipe_ids[h.k]
           r == GetRecipeById(o, r_id, store)
       IN  CASE r = "raise" -> Goto(Raised(h))
             [] r = "row" ->
                  Goto(HydrateLoop([h EXCEPT
                      !.paged_recipes = Append(@, [id |-> r_id, ingredients |-> TRUE]),
                      !.k = @ + 1]))
             [] OTHER -> Goto(HydrateLoop([h EXCEPT !.k = @ + 1]))
    /\ hist' = [hist EXCEPT !.dbRaised = @ \/ o = "raise"]
    /\ UNCHANGED <<store, collection, indexVars, fusionVars, restVars>>

\* main.py:201-203: get_recipe_by_id returned or raised in the context loop.
ContextReturn(o) ==
    /\ spc = "context"
    /\ LET r_id == h.context_ids[h.k]
           r == GetRecipeById(o, r_id, store)
       IN  CASE r = "raise" -> Goto(Raised(h))
             [] r = "row" ->
                  Goto(ContextLoop([h EXCEPT !.context_recipes = Append(@, r_id),
                                             !.k = @ + 1]))
             [] OTHER -> Goto(ContextLoop([h EXCEPT !.k = @ + 1]))
    /\ hist' = [hist EXCEPT !.dbRaised = @ \/ o = "raise"]
    /\ UNCHANGED <<store, collection, indexVars, fusionVars, restVars>>

\* main.py:241-256: chat_completion returned or raised.
GenerateReturn(o) ==
    /\ spc = "generate"
    /\ Goto([spc |-> "done", h |-> h, response |-> FinalResponse(o, h)])
    /\ hist' = [hist EXCEPT !.gen = o]
    /\ UNCHANGED <<store, collection, indexVars, fusionVars, restVars>>

\* main.py:61-96: GET /api/recipes/search, from the validation of the query
\* parameters to `await search_recipes(...)`.
StructuredRequest(page, page_size) ==
    /\ spc = "idle"
    /\ LET f == [NoFrame EXCEPT !.kind = "structured", !.page = page,
                                !.page_size = page_size]
       IN  IF PageValid(page)
           THEN Goto(Suspended("search", f))
           ELSE Goto([spc |-> "rejected", h |-> f, response |-> ErrorResponse(422)])
    /\ UNCHANGED <<store, hist, collection, indexVars, fusionVars, restVars>>

\* main.py:87-97: search_recipes returned its page, or raised.
StructuredReturn(o) ==
    /\ spc = "search"
    /\ IF o = "raise"
       THEN Goto(Raised(h))
       ELSE \E rows \in LexicalRows(store) :
                Goto([spc |-> "done", h |-> h,
                      response |-> [status |-> 200,
                                    recipes |-> SqlPage(rows, h.page, h.page_size),
                                    total |-> Len(rows), page |-> h.page,
                                    page_size |-> h.page_size, answer |-> ""]])
    /\ hist' = [hist EXCEPT !.lexical = o, !.dbRaised = @ \/ o = "raise"]
    /\ UNCHANGED <<store, collection, indexVars, fusionVars, restVars>>

\* import_data.py:27-230, import_recipes: the database file is removed and n
\* recipes are imported, with ids 1..n, before the request or while it waits
\* for one of its two probes.
Import(n) ==
    /\ spc \in {"idle", "embed", "query", "lexical"}
    /\ n # store
    /\ store' = n
    /\ UNCHANGED <<spc, h, response, touched, hist, collection, indexVars, fusionVars, restVars>>

\* rag.py:34-139, an indexing run over the recipes of the store, as the search
\* request sees it: the clear step went as c and the ids in S were upserted
\* (all of the list, or fewer when embeddings failed or a batch raised).  The
\* request reads the index in collection.query only, so runs after that read
\* are left out.
Reindex(c, S) ==
    /\ spc \in {"idle", "embed", "query"}
    /\ S \subseteq 1..store
    /\ collection' = Upsert(Cleared(collection, c), S)
    /\ collection' # collection
    /\ UNCHANGED <<searchVars, indexVars, fusionVars, restVars>>

SearchInit == Init

SearchNext ==
    \/ \E page \in Pages, page_size \in PageSizes : NaturalRequest(page, page_size)
    \/ \E o \in EmbedOutcomes : EmbedReturn(o)
    \/ \E o \in {"ok", "query_raise"} : QueryReturn(o)
    \/ \E o \in {"ok", "raise"} : LexicalReturn(o)
    \/ \E o \in {"ok", "raise"} : HydrateReturn(o)
    \/ \E o \in {"ok", "raise"} : ContextReturn(o)
    \/ \E o \in {"text", "raise"} : GenerateReturn(o)
    \/ \E page \in Pages, page_size \in PageSizes : StructuredRequest(page, page_size)
    \/ \E o \in {"ok", "raise"} : StructuredReturn(o)
    \/ \E n \in 0..MaxRecipes : Import(n)
    \/ \E c \in ClearOutcomes : \E S \in SUBSET (1..MaxRecipes) : Reindex(c, S)

SearchSpec == SearchInit /\ [][SearchNext]_vars

\* ------------------------------------- search_recipes, the Filter Compiler
\* A nutrient value is a string; the model keeps its runs in order: a run of
\* digits and dots that float() accepts, one it rejects (such as "."), or
\* any other text.
Num(v) == [num |-> TRUE, ok |-> TRUE, val |-> v]
Dot == [num |-> TRUE, ok |-> FALSE, val |-> 0]
Txt == [num |-> FALSE, ok |-> FALSE, val |-> 0]

\* The column nutrient_values of a row: NULL (import_data.py:158 stores None
\* for a recipe without nutrients), a map without the requested key, or a map
\* that gives the key a string.
NullCell == [null |-> TRUE, has |-> FALSE, runs |-> <<>>]
NoKeyCell == [null |-> FALSE, has |-> FALSE, runs |-> <<>>]
Cell(runs) == [null |-> FALSE, has |-> TRUE, runs |-> runs]

\* The rows a store is built from.  name is the sort key of the recipe's
\* name: the column is not unique (import_data.py:46-47), so two rows may
\* carry the same name.
RecipeKinds ==
    { [name |-> 1, ingredients |-> {"x", "y"}, category |-> "c", cell |-> Cell(<<Num(5), Txt>>)],
      [name |-> 1, ingredients |-> {"x"},      category |-> "c", cell |-> Cell(<<Num(9), Txt>>)],
      [name |-> 2, ingredients |-> {"x", "y"}, category |-> "d", cell |-> NullCell],
      [name |-> 2, ingredients |-> {"y"},      category |-> "c", cell |-> NoKeyCell],
      [name |-> 1, ingredients |-> {"x"},      category |-> "c", cell |-> Cell(<<Txt, Dot, Num(5)>>)],
      [name |-> 2, ingredients |-> {"x", "y"}, category |-> "c", cell |-> Cell(<<Txt>>)] }

\* The stores the filters are run on: three rows, any of the kinds each.
FilterIds == {1, 2, 3}
Stores == [FilterIds -> RecipeKinds]

\* The filters of a request: an include list with the legacy parameter
\* ingredient, an exclude list, a category, a nutrient criterion.
\* nutrient_max = -1 stands for None.
IncludeRequests ==
    { [include |-> <<>>, ingredient |-> ""],
      [include |-> <<"x">>, ingredient |-> ""],
      [include |-> <<" x">>, ingredient |-> "y"],
      [include |-> <<"x", " ", "y">>, ingredient |-> "y"] }
ExcludeLists == {<<>>, <<"y", " ">>}
NutrientRequests ==
    { [nutrient |-> "", nutrient_max |-> -1],
      [nutrient |-> "protein", nutrient_max |-> 7] }
Filters ==
    { [include |-> inc.include, ingredient |-> inc.ingredient, exclude |-> exc,
       category |-> cat, nutrient |-> nut.nutrient, nutrient_max |-> nut.nutrient_max] :
         inc \in IncludeRequests, exc \in ExcludeLists, cat \in {"", "c"},
         nut \in NutrientRequests }
FilterPages == {1, 2}
FilterPageSizes == {1, 2}

\* str.strip on the strings of the model.
Strip(s) == CASE s = " " -> "" [] s = " x" -> "x" [] s = " a" -> "a" [] OTHER -> s

\* main.py:78-80, the legacy parameter ingredient is appended to the include
\* list unless the list already holds it.
MergeLegacy(include, ingredient) ==
    IF ingredient /= "" /\ ingredient \notin Range(include)
    THEN Append(include, ingredient) ELSE include

\* database.py:151-174, the entries of an ingredient list that yield a
\* condition: blank entries are skipped, the others are stripped.
Terms(list) == {Strip(list[k]) : k \in {j \in 1..Len(list) : Strip(list[j]) /= ""}}

\* Variant of IncludeHolds: one matching include entry is enough.
IncludeHolds_any(rec, terms) == terms = {} \/ \E t \in terms : t \in rec.ingredients

\* database.py:151-161, one condition r.id IN (... MATCH term*) per include
\* entry, joined by AND.
IncludeHolds(rec, terms) == \A t \in terms : t \in rec.ingredients

\* database.py:164-174, one condition r.id NOT IN (... MATCH term*) per
\* exclude entry, joined by AND.
ExcludeHolds(rec, terms) == \A t \in terms : t \notin rec.ingredients

\* database.py:188-194.
CategoryHolds(rec, category) == category = "" \/ rec.category = category

\* database.py:204-206, the nutrient criterion adds a condition to the
\* primary predicate when name and bound are both given.
NutrientOn(f) == f.nutrient /= "" /\ f.nutrient_max /= -1
NutrientCondition(rec, f) == NutrientOn(f) => ~rec.cell.null

\* database.py:208, the conditions joined by AND.  f.include is the list the
\* handler passes, the legacy parameter merged in.
Where(rec, f) ==
    /\ IncludeHolds(rec, Terms(f.include))
    /\ ExcludeHolds(rec, Terms(f.exclude))
    /\ CategoryHolds(rec, f.category)
    /\ NutrientCondition(rec, f)

Matching(rows, f) == {id \in DOMAIN rows : Where(rows[id], f)}

\* Variant of CountQuery: the count ignores the conditions.
CountQuery_all(rows, f) == Cardinality(DOMAIN rows)

\* database.py:211-214, SELECT COUNT(DISTINCT r.id) ... WHERE where.
CountQuery(rows, f) == Cardinality(Matching(rows, f))

\* database.py:218-227, ORDER BY r.name: rows come sorted by name; the order
\* of rows with equal names is left to the database, which the model lets
\* take them by ascending or by descending id, chosen per execution.
TieOrders == {"asc", "desc"}
Before(rows, tie, a, b) ==
    \/ rows[a].name < rows[b].name
    \/ rows[a].name = rows[b].name /\ (IF tie = "asc" THEN a < b ELSE a > b)
RECURSIVE OrderByName(_, _, _)
OrderByName(rows, tie, S) ==
    IF S = {} THEN <<>>
    ELSE LET first == CHOOSE a \in S : \A b \in S \ {a} : Before(rows, tie, a, b)
         IN  <<first>> \o OrderByName(rows, tie, S \ {first})

DataQuery(rows, f, tie, page, page_size) ==
    SqlPage(OrderByName(rows, tie, Matching(rows, f)), page, page_size)

\* database.py:254-258, re.search(r'([\d.]+)'): the first run of digits and
\* dots of the value, wherever it stands.
FirstNumber(runs) ==
    IF \E k \in 1..Len(runs) : runs[k].num
    THEN runs[CHOOSE k \in 1..Len(runs) : runs[k].num /\ \A j \in 1..(k - 1) : ~runs[j].num]
    ELSE Txt

\* Variant of NutrientOutcome: a row without the nutrient is kept.
NutrientOutcome_keepAbsent(cell, bound) ==
    IF cell.null \/ ~cell.has \/ cell.runs = <<>> THEN "keep"
    ELSE LET m == FirstNumber(cell.runs)
         IN  IF ~m.num THEN "drop"
             ELSE IF ~m.ok THEN "raise"
             ELSE IF m.val <= bound THEN "keep" ELSE "drop"

\* database.py:251-261, what the post-filter does with one row: the value
\* nv.get(nutrient, "") is dropped when empty, float() of the first run
\* raises ValueError when the run is no number.
NutrientOutcome(cell, bound) ==
    IF cell.null \/ ~cell.has \/ cell.runs = <<>> THEN "drop"
    ELSE LET m == FirstNumber(cell.runs)
         IN  IF ~m.num THEN "drop"
             ELSE IF ~m.ok THEN "raise"
             ELSE IF m.val <= bound THEN "keep" ELSE "drop"

\* database.py:113-265, search_recipes: the count, the page, the post-filter.
\* fetched is the page before the post-filter.
SearchRecipes(rows, f, tie, page, page_size) ==
    LET fetched == DataQuery(rows, f, tie, page, page_size)
        out(id) == NutrientOutcome(rows[id].cell, f.nutrient_max)
    IN  IF NutrientOn(f) /\ \E k \in 1..Len(fetched) : out(fetched[k]) = "raise"
        THEN [status |-> 500, recipes |-> <<>>, total |-> 0,
              page |-> page, page_size |-> page_size, fetched |-> fetched]
        ELSE [status |-> 200,
              recipes |-> IF NutrientOn(f)
                          THEN SelectSeq(fetched, LAMBDA id : out(id) = "keep")
                          ELSE fetched,
              total |-> CountQuery(rows, f),
              page |-> page, page_size |-> page_size, fetched |-> fetched]

FilterInit ==
    /\ IndexInit /\ collection = {}
    /\ RankIdle /\ MergeIdle /\ SearchIdle
    /\ db \in Stores
    /\ calls = <<>>
    /\ ImportIdle /\ ScraperIdle

\* main.py:61-97, api_search_recipes: FastAPI admits page >= 1 and
\* page_size >= 1; the handler merges the legacy parameter and returns what
\* search_recipes returns.
ApiSearchRecipes(f, tie, page, page_size) ==
    /\ db /= <<>>
    /\ calls = <<>>
    /\ PageValid(page)
    /\ LET g == [f EXCEPT !.include = MergeLegacy(f.include, f.ingredient)]
       IN  calls' = <<[req |-> f, res |-> SearchRecipes(db, g, tie, page, page_size)]>>
    /\ UNCHANGED <<db, collection, indexVars, fusionVars, searchVars, importVars, scraperVars>>

\* A second request with the filters of the first, over the same store.
ApiSearchAgain(tie, page, page_size) ==
    /\ Len(calls) = 1
    /\ PageValid(page)
    /\ LET f == calls[1].req
           g == [f EXCEPT !.include = MergeLegacy(f.include, f.ingredient)]
       IN  calls' = Append(calls, [req |-> f, res |-> SearchRecipes(db, g, tie, page, page_size)])
    /\ UNCHANGED <<db, collection, indexVars, fusionVars, searchVars, importVars, scraperVars>>

FilterNext ==
    \/ \E f \in Filters, tie \in TieOrders, page \in FilterPages, page_size \in FilterPageSizes :
          ApiSearchRecipes(f, tie, page, page_size)
    \/ \E tie \in TieOrders, page \in FilterPages, page_size \in FilterPageSizes :
          ApiSearchAgain(tie, page, page_size)

FilterSpec == FilterInit /\ [][FilterNext]_vars

\* --------------------------------------------------------- import_recipes
\* The entries an input file is made of: name, url, ingredient names, tags
\* and categories as the file gives them, blank and padded strings among them.
EntryKinds ==
    { [name |-> "n", url |-> "a",  ingredients |-> <<"i">>, tags |-> <<"t", "t">>, categories |-> <<"c">>],
      [name |-> "m", url |-> " a", ingredients |-> <<"i">>, tags |-> <<"t", "u">>, categories |-> <<"c", "c">>],
      [name |-> "m", url |-> "b",  ingredients |-> <<"">>,  tags |-> <<" ">>,      categories |-> <<>>],
      [name |-> " ", url |-> "a",  ingredients |-> <<"i">>, tags |-> <<"t">>,      categories |-> <<"c">>],
      [name |-> "n", url |-> "",   ingredients |-> <<"i">>, tags |-> <<"u">>,      categories |-> <<"c">>] }

\* The input files: up to MaxEntries entries.
MaxEntries == 3
Inputs == UNION {[1..n -> EntryKinds] : n \in 0..MaxEntries}

\* Variant of InsertRecipe: the table takes any row, as without UNIQUE on url.
InsertRecipe_noUnique(rows, row) == [err |-> FALSE, rows |-> Append(rows, row)]

\* import_data.py:140-166 with the schema's url TEXT NOT NULL UNIQUE
\* (import_data.py:47): the insert raises sqlite3.IntegrityError when a row
\* has the url, and appends the row otherwise; the id of a row is its index.
InsertRecipe(rows, row) ==
    IF \E k \in 1..Len(rows) : rows[k].url = row.url
    THEN [err |-> TRUE, rows |-> rows]
    ELSE [err |-> FALSE, rows |-> Append(rows, row)]

\* import_data.py:169-179, one ingredients row per ingredient with a
\* non-blank name.
RECURSIVE InsertIngredients(_, _, _)
InsertIngredients(rows, recipe_id, names) ==
    IF names = <<>> THEN rows
    ELSE InsertIngredients(
            IF Strip(Head(names)) /= ""
            THEN Append(rows, [recipe_id |-> recipe_id, name |-> Strip(Head(names))])
            ELSE rows,
            recipe_id, Tail(names))

\* import_data.py:187-194 and 212-223, the id of a tag or category name: the
\* name is inserted once, its id is its row index (tag_cache, category_cache).
AddName(names, name) == IF name \in Range(names) THEN names ELSE Append(names, name)
NameId(names, name) == CHOOSE k \in 1..Len(names) : names[k] = name

\* import_data.py:196-199 and 225-228, INSERT OR IGNORE under the primary key
\* (recipe_id, tag_id) or (recipe_id, category_id).
InsertOrIgnore(links, link) == IF link \in Range(links) THEN links ELSE Append(links, link)

\* import_data.py:182-199 and 207-228, the loop over the tags or categories
\* of an entry: blank names are skipped; t is the pair of the name table and
\* the link table.
RECURSIVE LinkNames(_, _, _)
LinkNames(t, recipe_id, names) ==
    IF names = <<>> THEN t
    ELSE LET name == Strip(Head(names))
             known == AddName(t.names, name)
         IN  LinkNames(
                IF name = "" THEN t
                ELSE [names |-> known,
                      links |-> InsertOrIgnore(t.links, <<recipe_id, NameId(known, name)>>)],
                recipe_id, Tail(names))

\* import_data.py:126-228, what one entry does to the tables once its recipe
\* row is in: ingredients, tags, categories.
InsertDetails(t, recipe_id, entry) ==
    LET tg == LinkNames([names |-> t.tags, links |-> t.recipe_tags], recipe_id, entry.tags)
        cg == LinkNames([names |-> t.categories, links |-> t.recipe_categories],
                        recipe_id, entry.categories)
    IN  [t EXCEPT !.ingredients = InsertIngredients(t.ingredients, recipe_id, entry.ingredients),
                  !.tags = tg.names, !.recipe_tags = tg.links,
                  !.categories = cg.names, !.recipe_categories = cg.links]

ImportInit ==
    /\ IndexInit /\ collection = {}
    /\ RankIdle /\ MergeIdle /\ SearchIdle /\ FilterIdle /\ ScraperIdle
    /\ data \in Inputs
    /\ pos = 1
    /\ tables = EmptyTables
    /\ recipe_count = 0
    /\ skipped = 0
    /\ ipc = "loop"

\* import_data.py:126-228, one iteration of the loop over the entries.
ImportEntry ==
    /\ ipc = "loop"
    /\ pos <= Len(data)
    /\ LET entry == data[pos]
           name == Strip(entry.name)
           url == Strip(entry.url)
           ins == InsertRecipe(tables.recipes, [name |-> name, url |-> url, entry |-> pos])
       IN  IF name = "" \/ url = ""
           THEN /\ skipped' = skipped + 1
                /\ UNCHANGED <<tables, recipe_count>>
           ELSE IF ins.err
           THEN /\ skipped' = skipped + 1
                /\ UNCHANGED <<tables, recipe_count>>
           ELSE /\ tables' = InsertDetails([tables EXCEPT !.recipes = ins.rows],
                                           Len(ins.rows), entry)
                /\ recipe_count' = recipe_count + 1
                /\ UNCHANGED skipped
    /\ pos' = pos + 1
    /\ UNCHANGED <<data, ipc, collection, indexVars, fusionVars, searchVars, filterVars, scraperVars>>

\* import_data.py:230-231, the loop is over: commit and close.
ImportFinish ==
    /\ ipc = "loop"
    /\ pos > Len(data)
    /\ ipc' = "done"
    /\ UNCHANGED <<data, pos, tables, recipe_count, skipped,
                   collection, indexVars, fusionVars, searchVars, filterVars, scraperVars>>

ImportNext == ImportEntry \/ ImportFinish

ImportSpec == ImportInit /\ [][ImportNext]_vars

\* ------------------------------------------------------- get_recipes_list
\* Largest listing page number the model lets the loop fetch.
MaxPage == 6
\* scrap_recipes.py:334, the number of consecutive pages without a new recipe
\* at which the scrape_all mode stops.
EmptyLimit == 3

\* scrap_recipes.py:341-347 and 350-351, what fetching a listing page gives:
\* the request or the parse raises, or the page lists some recipe urls.
ListingOutcomes == {[raised |-> TRUE, urls |-> {}]} \cup {[raised |-> FALSE, urls |-> S] : S \in SUBSET Urls}

\* scrap_recipes.py:364-367, the urls of a page the loop takes: not seen
\* before and not in url2skip.
NewUrls(urls, seen) == (urls \ seen) \ {"skip"}

\* scrap_recipes.py:332-336, the stop condition at the head of the loop.
StopCondition ==
    \/ ~scrape_all /\ page_no > end_page
    \/ scrape_all /\ consecutive_empty >= EmptyLimit

ScraperInit ==
    /\ IndexInit /\ collection = {}
    /\ RankIdle /\ MergeIdle /\ SearchIdle /\ FilterIdle /\ ImportIdle
    /\ scrape_all \in BOOLEAN
    /\ end_page \in 0..2
    /\ page_no = 1
    /\ consecutive_empty = 0
    /\ seen_urls = {}
    /\ details = [u \in Urls |-> 0]
    /\ barren = 0
    /\ lpc = "loop"

\* scrap_recipes.py:338-390, one iteration of the loop that passes the stop
\* condition: the listing page is fetched; when that raises, page is
\* advanced and the iteration ends (344-348); otherwise the details of each
\* new url are fetched once and the counter of empty pages is updated.
ListingPage(o) ==
    /\ lpc = "loop"
    /\ ~StopCondition
    /\ page_no <= MaxPage
    /\ page_no' = page_no + 1
    /\ IF o.raised
       THEN /\ barren' = barren + 1
            /\ UNCHANGED <<consecutive_empty, seen_urls, details>>
       ELSE LET new == NewUrls(o.urls, seen_urls)
            IN  /\ seen_urls' = seen_urls \cup new
                /\ details' = [u \in Urls |-> IF u \in new THEN details[u] + 1 ELSE details[u]]
                /\ consecutive_empty' = IF new = {} THEN consecutive_empty + 1 ELSE 0
                /\ barren' = IF new = {} THEN barren + 1 ELSE 0
    /\ UNCHANGED <<scrape_all, end_page, lpc,
                   collection, indexVars, fusionVars, searchVars, filterVars, importVars>>

\* scrap_recipes.py:332-336, break.
StopScraping ==
    /\ lpc = "loop"
    /\ StopCondition
    /\ lpc' = "done"
    /\ UNCHANGED <<scrape_all, end_page, page_no, consecutive_empty, seen_urls, details, barren,
                   collection, indexVars, fusionVars, searchVars, filterVars, importVars>>

ScraperNext ==
    \/ \E o \in ListingOutcomes : ListingPage(o)
    \/ StopScraping

ScraperSpec == ScraperInit /\ [][ScraperNext]_vars

\* ------------------------------------------------------------- claims

\* Number of embedding requests of run r that are issued and not yet returned.
InFlight(r) == Cardinality({x \in 1..MaxRecipes : task[r][x] = "inflight"})

RECURSIVE SumInFlight(_)
SumInFlight(S) ==
    IF S = {} THEN 0
    ELSE LET r == CHOOSE q \in S : TRUE IN InFlight(r) + SumInFlight(S \ {r})

\* The recipes of run r whose embedding request failed (raised or gave no vector).
FailedSet(r) == {x \in 1..recipes[r] : task[r][x] = "none"}

\* The recipes of run r whose embedding request has been issued.
Issued(r) == {x \in 1..MaxRecipes : task[r][x] \in {"inflight", "ok", "none"}}

\* C1: at most one run of index_recipes is active at a time: there is never a
\* state in which two calls are both past the is_indexing guard and neither has
\* returned.
C1_SingleFlight == Cardinality({r \in Reqs : pc[r] \in Running}) <= 1

\* A call was made while another run was suspended in its upsert, and was turned away.
C1_Witness ==
    \E r, q \in Reqs : r # q /\ pc[r] = "upsert" /\ pc[q] = "dropped"

\* C2: a call of index_recipes made while is_indexing is true returns 0 at once
\* and leaves the status and the vector index as they were; the status is only
\* ever written by a step of the run that is active (or by the call that passes
\* the guard and becomes the active run).
C2_RejectedCallChangesNothing ==
    [][ /\ \A r \in Reqs :
              (pc[r] = "task" /\ pc'[r] # "task" /\ indexing_status.is_indexing)
                  => /\ pc'[r] = "dropped"
                     /\ retval'[r] = 0
                     /\ indexing_status' = indexing_status
                     /\ collection' = collection
        /\ indexing_status' # indexing_status
              => \E r \in Reqs :
                    /\ \/ pc[r] \in Running
                       \/ pc[r] = "task" /\ ~indexing_status.is_indexing
                    /\ pc'[r] # pc[r] \/ i'[r] # i[r]
                    /\ \A q \in Reqs \ {r} : pc[q] \notin Running
      ]_vars

\* A call was turned away with 0 while the active run had already reported progress.
C2_Witness ==
    \E r, q \in Reqs :
        /\ r # q
        /\ pc[q] = "dropped" /\ retval[q] = 0
        /\ pc[r] = "gather" /\ indexing_status.processed > 0
        /\ indexing_status.is_indexing

\* C3: every start-reindex request that does not itself start an indexing run is
\* answered "Indexing already in progress"; none is answered "Indexing started
\* in background" and then dropped.
C3_NonStarterIsRejected ==
    \A r \in Reqs : pc[r] \in {"rejected", "dropped"} => resp[r] = RespAlready

\* C4: a run that has set is_indexing sets it back to false, however the run
\* ends; whenever no run is active the flag is false, so the guard lets the next
\* call start a run.
C4_FlagAlwaysCleared ==
    /\ indexing_status.is_indexing ~> ~indexing_status.is_indexing
    /\ []((\A r \in Reqs : pc[r] \notin Running) => ~indexing_status.is_indexing)

\* A run ended in the exception handler and the next call started a run.
C4_Witness ==
    \E r, q \in Reqs :
        /\ pc[r] = "failed" /\ excAt[r] = "upsert"
        /\ pred[q] = r /\ pc[q] \in Running

\* C5: a run in which embedding requests failed for the set F of its recipes, and
\* nothing else raised, went through every batch, ended with message
\* "Completed" and processed = total, and left the vector index with an entry
\* for every recipe outside F and for no recipe in F.
C5_EmbeddingFailuresOnlySkip ==
    \A r \in Reqs :
        pc[r] = "completed"
            => /\ final[r].message = MsgCompleted
               /\ final[r].processed = final[r].total
               /\ final[r].total = recipes[r]
               /\ \A x \in 1..recipes[r] : task[r][x] \in TaskDone
               /\ \A x \in 1..recipes[r] : x \in endIndex[r] <=> x \notin FailedSet(r)

\* C6: when the upsert of the batch at i raises, the run stops: no recipe of a
\* later batch has a task, nothing of this or a later batch is upserted, the
\* message is the failure message, processed is the value written after the
\* batch before (i), the flag is cleared and the call returns 0.
C6_BatchExceptionStopsRun ==
    \A r \in Reqs :
        excAt[r] = "upsert"
            => /\ pc[r] = "failed"
               /\ final[r].message = MsgFailed
               /\ final[r].processed = i[r]
               /\ ~final[r].is_indexing
               /\ retval[r] = 0
               /\ \A x \in 1..MaxRecipes : x > i[r] + batch_size => task[r][x] = "new"
               /\ upserted[r] \subseteq 1..i[r]

\* One run failed in its first batch with a later batch left, another in a later batch.
C6_Witness ==
    \E r, q \in Reqs :
        /\ excAt[r] = "upsert" /\ i[r] = 0 /\ recipes[r] > batch_size
        /\ excAt[q] = "upsert" /\ i[q] > 0

\* C7: the number of embedding requests in flight never exceeds the limit of the
\* semaphore, over all calls together; the slots taken are exactly the requests
\* in flight, so a request that raised has given its slot back.
C7_InFlightBounded ==
    /\ SumInFlight(Reqs) <= SemLimit
    /\ \A r \in Reqs : sem[r] + InFlight(r) = SemLimit

\* The limit is reached by a request that took the slot a failed request gave back.
C7_Witness ==
    \E r \in Reqs : \E x, y \in 1..MaxRecipes :
        /\ y < x /\ BatchOf(x) = BatchOf(y)
        /\ task[r][y] = "none" /\ task[r][x] = "inflight"
        /\ InFlight(r) = SemLimit /\ sem[r] = 0

\* C8: when an embedding request of a recipe of batch b >= 1 has been issued,
\* every request of the batches before b has finished, every vector they gave
\* has been upserted, and the status shows at least b whole batches processed.
C8_BatchesInSequence ==
    \A r \in Reqs : \A x \in Issued(r) :
        LET st == IF pc[r] \in Running THEN indexing_status ELSE final[r] IN
        BatchOf(x) >= 1
            => /\ \A y \in 1..MaxRecipes :
                     BatchOf(y) < BatchOf(x)
                         => /\ task[r][y] \in TaskDone
                            /\ task[r][y] = "ok" => y \in upserted[r]
               /\ st.processed >= BatchOf(x) * batch_size
               /\ st.message # MsgStarting

\* A request of the second batch is in flight after the first batch was upserted.
C8_Witness ==
    \E r \in Reqs : \E x \in 1..MaxRecipes :
        /\ pc[r] = "gather" /\ i[r] > 0
        /\ BatchOf(x) >= 1 /\ task[r][x] = "inflight"
        /\ upserted[r] # {}
        /\ indexing_status.message = MsgProcessed

\* C9: after a run that ends with message "Completed", every id in the vector
\* index is the id of a recipe of the list passed to that run.
C9_NoStaleEntryAfterCompleted ==
    \A r \in Reqs : pc[r] = "completed" => endIndex[r] \subseteq 1..recipes[r]

\* Run r came right after run q, over the same list, and both ended "Completed".
Successive(q, r) ==
    /\ q # r
    /\ pc[q] = "completed" /\ pc[r] = "completed"
    /\ pred[r] = q
    /\ recipes[r] = recipes[q]

\* C10 as stated: two runs in succession over an unchanged list leave the same
\* ids (and so the same count) in the vector index.  Stated for the runs whose
\* clear step returned normally, where no entry of an earlier index is involved.
C10_RerunSameIndex ==
    \A q, r \in Reqs :
        (Successive(q, r) /\ clearOutcome[q] = "ok" /\ clearOutcome[r] = "ok")
            => /\ endIndex[r] = endIndex[q]
               /\ Cardinality(endIndex[r]) = Cardinality(endIndex[q])

\* C10 amended: two runs in succession over an unchanged list, both ended
\* "Completed" with the same embedding failures F: after the second run the
\* index holds every recipe of the list outside F and nothing it did not hold
\* after the first run, so its count is not larger; index and count are the same
\* when the index after the first run held just the list outside F.
C10_RerunSameIndexGivenSameFailures ==
    \A q, r \in Reqs :
        (Successive(q, r) /\ FailedSet(r) = FailedSet(q))
            => LET L == 1..recipes[r] IN
               /\ (L \ FailedSet(r)) \subseteq endIndex[r]
               /\ endIndex[r] \subseteq endIndex[q]
               /\ Cardinality(endIndex[r]) <= Cardinality(endIndex[q])
               /\ endIndex[q] = L \ FailedSet(q)
                    => /\ endIndex[r] = endIndex[q]
                       /\ Cardinality(endIndex[r]) = Cardinality(endIndex[q])

\* Two successive runs over two batches each, with the same recipe failing in both.
C10_Witness ==
    \E q, r \in Reqs :
        /\ Successive(q, r)
        /\ FailedSet(r) = FailedSet(q) /\ FailedSet(r) # {}
        /\ recipes[r] > batch_size
        /\ endIndex[r] = endIndex[q] /\ endIndex[r] # {}

C13_MergeOrderPreservingNoDuplicates ==
    mergeDone =>
        LET n == Len(keyword_in)
            m == Len(merged_out)
            PosV(x) == CHOOSE k \in 1..Len(vector_in) : vector_in[k] = x
        IN  /\ \A a, b \in 1..m : a # b => merged_out[a] # merged_out[b]
            /\ Range(merged_out) = Range(keyword_in) \cup Range(vector_in)
            /\ m >= n /\ SubSeq(merged_out, 1, n) = keyword_in
            /\ \A a \in (n + 1)..m : merged_out[a] \in Range(vector_in) \ Range(keyword_in)
            /\ \A a, b \in (n + 1)..m :
                   a < b => PosV(merged_out[a]) < PosV(merged_out[b])

\* A merge of lists that share an id, where V has an id L lacks before the
\* shared one and two new ids in an order that is not the order of L.
C13_Witness ==
    /\ mergeDone
    /\ Range(keyword_in) \cap Range(vector_in) # {}
    /\ Len(merged_out) > Len(keyword_in) + 1
    /\ Len(merged_out) < Len(keyword_in) + Len(vector_in)
    /\ Len(keyword_in) > 0 /\ vector_in[1] \notin Range(keyword_in)

\* C20 as stated: no id whose distance as returned by the index exceeds the
\* threshold is in the list the semantic probe returns.
C20_RawAboveThresholdNeverReturned ==
    rankDone =>
        \A k \in 1..Len(results) :
            results[k].dist > Threshold => results[k].id \notin Range(ranked)

\* C20 amended: the threshold is applied once, to the boosted distance: an id is
\* returned exactly when its distance, less 0.20 if its name contains the
\* whole query and otherwise less 0.05 for each long query word in its name,
\* is below 0.60; the returned ids are in order of that boosted distance.
C20_ThresholdAfterBoosting ==
    rankDone =>
        LET B(c) == c.dist - (IF c.full THEN 20 ELSE 5 * c.matches)
            Cand(x) == CHOOSE c \in Range(results) : c.id = x
        IN  /\ \A c \in Range(results) : c.id \in Range(ranked) <=> B(c) < 60
            /\ \A a, b \in 1..Len(ranked) :
                   a < b => /\ ranked[a] # ranked[b]
                            /\ B(Cand(ranked[a])) <= B(Cand(ranked[b]))

\* A candidate at raw distance 0.70 is returned because its name contains the
\* whole query, next to one at 0.85 that is dropped although boosted.
C20_Witness ==
    /\ rankDone
    /\ \E c, d \in Range(results) :
          /\ c.dist > Threshold /\ c.id \in Range(ranked)
          /\ d.dist > Threshold /\ (d.full \/ d.matches > 0) /\ d.id \notin Range(ranked)

\* C11: the vector probe never returns an id of a recipe that is absent from
\* the Record Store at the moment the probe returns.
C11_ProbeReturnsOnlyStoredRecipes ==
    hist.probe # "none" =>
        \A k \in 1..Len(h.vector_ids) : h.vector_ids[k] \in 1..hist.storeAtProbe

C15_NoIdsNoGeneration ==
    (h.kind = "natural" /\ hist.lexical = "ok"
        /\ h.vector_ids = <<>> /\ h.keyword_ids = <<>>) =>
        /\ spc = "done"
        /\ response = [status |-> 200, recipes |-> <<>>, total |-> 0,
                       page |-> h.page, page_size |-> h.page_size,
                       answer |-> AnswerNoMatch]
        /\ "llm" \notin touched

\* Both probes ran against a store and an index that hold recipes and
\* returned nothing.
C15_Witness ==
    /\ h.kind = "natural" /\ spc = "done" /\ hist.probe = "ok" /\ hist.lexical = "ok"
    /\ store > 0 /\ collection # {}
    /\ h.all_recipe_ids = <<>>
    /\ response.answer = AnswerNoMatch

\* C16: when answer generation raises with a non-empty merged list, the
\* request succeeds with the fixed fallback answer, and its results are what the
\* request returns when generation succeeds: the hydrated page, the length of
\* the merged list, page and page_size.
C16_GenerationFailureFallsBack ==
    (spc = "done" /\ hist.gen # "none") =>
        /\ h.all_recipe_ids # <<>>
        /\ response.status = 200
        /\ response.answer = (IF hist.gen = "raise" THEN AnswerFallback ELSE AnswerGenerated)
        /\ response.recipes = [j \in 1..Len(h.paged_recipes) |-> h.paged_recipes[j].id]
        /\ response.total = Len(h.all_recipe_ids)
        /\ response.page = h.page /\ response.page_size = h.page_size

\* Generation raised after a page with a recipe from each probe was hydrated.
C16_Witness ==
    /\ spc = "done" /\ hist.gen = "raise"
    /\ response.answer = AnswerFallback
    /\ Len(response.recipes) = 2
    /\ \E j \in 1..2 : h.paged_recipes[j].ingredients
    /\ \E j \in 1..2 : ~h.paged_recipes[j].ingredients

\* C17: when the embedding request for the query fails (raises or yields no
\* vector) or the vector query raises, the search goes on: the semantic probe
\* contributes no id, the merged list is the lexical list, and the request fails
\* only if a datastore query raises.
C17_ProbeFailureLeavesLexicalList ==
    (hist.probe \in {"embed_empty", "embed_raise", "query_raise"}) =>
        /\ h.vector_ids = <<>>
        /\ spc = "error" => hist.dbRaised
        /\ hist.lexical = "ok" => h.all_recipe_ids = h.keyword_ids

\* The vector query raised over a non-empty index and the request ended with a
\* page of lexical results.
C17_Witness ==
    /\ hist.probe = "query_raise" /\ collection # {}
    /\ spc = "done" /\ h.keyword_ids # <<>>
    /\ response.recipes = h.paged_recipe_ids /\ response.recipes # <<>>

\* C18: when a datastore query raises (the lexical probe or a hydration
\* fetch), the request ends with an explicit failure: no results in the
\* response, and answer generation is not called.
C18_StoreFailureIsExplicit ==
    hist.dbRaised =>
        /\ spc = "error"
        /\ response = ErrorResponse(500)
        /\ "llm" \notin touched

\* A fetch raised after part of the page (or of the context) had been
\* hydrated.
C18_Witness ==
    /\ h.kind = "natural" /\ hist.dbRaised /\ hist.lexical = "ok"
    /\ spc = "error"
    /\ h.paged_recipes # <<>>

\* C19: a search request with page < 1 is rejected as an input error before
\* the datastore or the vector index is touched, for the structured search and
\* for the natural-language search.
C19_PageBelowOneRejectedUntouched ==
    (h.kind # "none" /\ h.page < 1) =>
        /\ spc = "rejected"
        /\ touched = {}

\* C21: of two candidates at the same raw distance, one whose name contains
\* the whole query and one whose name does not, the first never has the greater
\* post-boost distance, however many long query words the other name contains.
C21_WholeQueryBoostIsStrongest ==
    rankDone =>
        \A c, d \in Range(results) :
            (c.dist = d.dist /\ c.full /\ ~d.full) => FinalDist(c) <= FinalDist(d)

\* C27: in every state 0 <= processed <= total; while a run is under way,
\* processed is min(batch_size * k, total) for the k batches handled so far,
\* whether or not embeddings of those batches failed; a run that ends
\* "Completed" leaves processed = total; and processed never decreases within
\* a run.
C27_ProgressBoundedAndMonotonic ==
    /\ [](/\ 0 <= indexing_status.processed
          /\ indexing_status.processed <= indexing_status.total
          /\ \A r \in Reqs :
                /\ pc[r] \in Running =>
                      /\ indexing_status.total = recipes[r]
                      /\ indexing_status.processed =
                             Min(batch_size * (i[r] \div batch_size), recipes[r])
                /\ pc[r] = "completed" => final[r].processed = recipes[r])
    /\ [][(indexing_status.is_indexing /\ indexing_status'.is_indexing)
             => indexing_status'.processed >= indexing_status.processed]_vars

\* A run is in its second batch after an embedding of its first batch failed,
\* and the skipped recipe is counted as processed.
C27_Witness ==
    \E r \in Reqs :
        /\ pc[r] \in Running /\ i[r] = batch_size
        /\ FailedSet(r) # {}
        /\ indexing_status.processed = batch_size
        /\ indexing_status.processed < indexing_status.total

\* C28: whenever is_indexing is false the message is "Idle", "Completed" or
\* "Failed: ...", and whenever the message is "Completed" processed = total.
C28_MessageMatchesFlag ==
    /\ ~indexing_status.is_indexing
          => indexing_status.message \in {MsgIdle, MsgCompleted, MsgFailed}
    /\ indexing_status.message = MsgCompleted
          => indexing_status.processed = indexing_status.total

\* One run over an empty list and one run that failed have both ended, and a
\* run over a non-empty list has ended "Completed".
C28_Witness ==
    \E r, q \in Reqs :
        /\ pc[r] = "completed" /\ recipes[r] = 0 /\ final[r].message = MsgCompleted
        /\ pc[q] = "failed" /\ final[q].message = MsgFailed
        /\ ~indexing_status.is_indexing

\* C29: the number of recipes a natural-language search returns on page p is
\* min(page_size, max(0, total - (p-1)*page_size)).
C29_PageCountMatchesTotal ==
    (h.kind = "natural" /\ spc = "done" /\ h.page >= 1) =>
        LET rest == response.total - (h.page - 1) * h.page_size
        IN  Len(response.recipes) = Min(h.page_size, IF rest > 0 THEN rest ELSE 0)

\* The response a call got, and the filters search_recipes was given.
Ok(k) == calls[k].res.status = 200
Given(k) == [calls[k].req EXCEPT !.include = MergeLegacy(calls[k].req.include, calls[k].req.ingredient)]

\* C22: the total of a response is the number of recipes that satisfy the
\* predicate the page was selected with (include, exclude, category and, with
\* a nutrient criterion, a non-NULL nutrient column; the nutrient bound is not
\* part of it), and a second request with the same filters reports the same
\* total whatever its page and page_size.
C22_TotalCountsThePredicate ==
    /\ \A k \in 1..Len(calls) : Ok(k) =>
          /\ calls[k].res.total =
                Cardinality({id \in DOMAIN db :
                    /\ \A t \in Terms(Given(k).include) : t \in db[id].ingredients
                    /\ \A t \in Terms(Given(k).exclude) : t \notin db[id].ingredients
                    /\ Given(k).category /= "" => db[id].category = Given(k).category
                    /\ NutrientOn(Given(k)) => ~db[id].cell.null})
          /\ Range(calls[k].res.fetched) \subseteq Matching(db, Given(k))
    /\ (Len(calls) = 2 /\ Ok(1) /\ Ok(2)) => calls[1].res.total = calls[2].res.total

\* Two answered requests for different pages of a store where the nutrient
\* criterion excludes a recipe from the count and the post-filter drops rows.
C22_Witness ==
    /\ Len(calls) = 2 /\ Ok(1) /\ Ok(2)
    /\ calls[1].res.page /= calls[2].res.page
    /\ calls[1].res.page_size /= calls[2].res.page_size
    /\ NutrientOn(calls[1].req)
    /\ calls[1].res.total = 2
    /\ Len(calls[1].res.recipes) < Len(calls[1].res.fetched)

\* The recipes of the store that carry both ingredients x and y.
HasBoth == {id \in DOMAIN db : {"x", "y"} \subseteq db[id].ingredients}

\* C23: every recipe of a response has, for each non-blank include entry
\* (the legacy parameter among them), an ingredient that matches it, and for
\* each non-blank exclude entry none; and a request that includes x and y and
\* has no other criterion, over a store where one recipe alone has both,
\* returns that recipe alone on page 1 and reports total 1.
C23_IngredientFiltersAreConjunctive ==
    \A k \in 1..Len(calls) : Ok(k) =>
        LET f == calls[k].req
            res == calls[k].res
        IN  /\ \A id \in Range(res.recipes) :
                  /\ \A j \in 1..Len(f.include) :
                        Strip(f.include[j]) /= "" => Strip(f.include[j]) \in db[id].ingredients
                  /\ Strip(f.ingredient) /= "" => Strip(f.ingredient) \in db[id].ingredients
                  /\ \A j \in 1..Len(f.exclude) :
                        Strip(f.exclude[j]) /= "" => Strip(f.exclude[j]) \notin db[id].ingredients
            /\ ( /\ Terms(f.include) \cup {f.ingredient} = {"x", "y"}
                 /\ Terms(f.exclude) = {} /\ f.category = "" /\ ~NutrientOn(f)
                 /\ Cardinality(HasBoth) = 1
                 /\ res.page = 1 )
               => /\ Range(res.recipes) = HasBoth /\ Len(res.recipes) = 1
                  /\ res.total = 1

\* A request including x and y, one of them through the legacy parameter,
\* answered over a store where one recipe has both and another has only x.
C23_Witness ==
    /\ Len(calls) >= 1 /\ Ok(1)
    /\ calls[1].req.include = <<" x">> /\ calls[1].req.ingredient = "y"
    /\ Terms(calls[1].req.exclude) = {} /\ calls[1].req.category = ""
    /\ ~NutrientOn(calls[1].req)
    /\ Cardinality(HasBoth) = 1
    /\ \E id \in DOMAIN db : db[id].ingredients = {"x"}
    /\ calls[1].res.page = 1
    /\ Range(calls[1].res.recipes) = HasBoth

\* The recipes that satisfy the criteria of f other than the nutrient one.
MatchingOthers(f) ==
    {id \in DOMAIN db :
        /\ \A t \in Terms(f.include) : t \in db[id].ingredients
        /\ \A t \in Terms(f.exclude) : t \notin db[id].ingredients
        /\ f.category /= "" => db[id].category = f.category}

\* The nutrient value of recipe id is present and its first number is at most
\* the bound.
WithinBound(id, bound) ==
    /\ db[id].cell.has
    /\ FirstNumber(db[id].cell.runs).num
    /\ FirstNumber(db[id].cell.runs).ok
    /\ FirstNumber(db[id].cell.runs).val <= bound

\* The first run of digits and dots of the nutrient value of recipe id is not
\* a number.
Malformed(id) ==
    /\ db[id].cell.has
    /\ FirstNumber(db[id].cell.runs).num
    /\ ~FirstNumber(db[id].cell.runs).ok

\* C24 as stated: with a nutrient criterion the rows are the rows of the page
\* whose nutrient value is present and whose number is at most the bound, and
\* total is the total of the same request without the nutrient criterion.
C24_TotalIgnoresTheNutrientCriterion ==
    \A k \in 1..Len(calls) : (Ok(k) /\ NutrientOn(calls[k].req)) =>
        /\ calls[k].res.recipes =
              SelectSeq(calls[k].res.fetched,
                        LAMBDA id : WithinBound(id, calls[k].req.nutrient_max))
        /\ calls[k].res.total = Cardinality(MatchingOthers(Given(k)))

\* C24, amended: with a nutrient criterion the page is selected among, and
\* total counts, the recipes that satisfy the other criteria and have a
\* non-NULL nutrient column; the request fails when the first run of digits
\* and dots of a value on the page is not a number; otherwise the rows are
\* the rows of the page, in page order, whose value is present and whose
\* first number is at most the bound.
C24_PostFilterOverThePage ==
    \A k \in 1..Len(calls) : NutrientOn(calls[k].req) =>
        LET res == calls[k].res
            counted == {id \in MatchingOthers(Given(k)) : ~db[id].cell.null}
        IN  /\ Range(res.fetched) \subseteq counted
            /\ Len(res.fetched) =
                  Min(res.page_size, Cardinality(counted) - Min(Cardinality(counted), (res.page - 1) * res.page_size))
            /\ Ok(k) <=> ~\E id \in Range(res.fetched) : Malformed(id)
            /\ Ok(k) =>
                  /\ res.recipes =
                        SelectSeq(res.fetched,
                                  LAMBDA id : WithinBound(id, calls[k].req.nutrient_max))
                  /\ res.total = Cardinality(counted)

\* A request with a nutrient criterion whose other criteria match a recipe
\* without nutrient column, and whose page has a row that is kept and a row
\* that is dropped.
C24_Witness ==
    /\ Len(calls) >= 1 /\ Ok(1) /\ NutrientOn(calls[1].req)
    /\ \E id \in MatchingOthers(Given(1)) : db[id].cell.null
    /\ Len(calls[1].res.recipes) = 1
    /\ Len(calls[1].res.fetched) = 2

SkippedEntries == {k \in 1..(pos - 1) : ~\E r \in 1..Len(tables.recipes) : tables.recipes[r].entry = k}

\* A sequence without two equal elements.
NoDuplicates(rows) == \A a, b \in 1..Len(rows) : rows[a] = rows[b] => a = b

C30_ListingLoopStops ==
    /\ ~scrape_all => page_no <= (IF end_page >= 1 THEN end_page + 1 ELSE 1)
    /\ scrape_all => barren <= EmptyLimit
    /\ \A u \in Urls : details[u] <= 1

====
